---- MODULE Spec2Model ----
(***************************************************************************)
(* A model of package profile (src/profile/load.go): the caller-facing     *)
(* load operations Load, LoadAtTime, LoadByID, LoadWithNameHistory,        *)
(* LoadWithProperties and LoadMany, and the helpers they are built from    *)
(* (transformError, buildProfile, buildHistory, msToTime, buildProperties, *)
(* populateTextures, defaultModel, isEven).                                *)
(*                                                                         *)
(* A client calls one operation at a time.  An operation sends at most one *)
(* request to the transport, which answers with a decoded JSON document or *)
(* with a failure; the operation turns the answer into its results.        *)
(***************************************************************************)
EXTENDS Integers, Sequences, FiniteSets, TLC

VARIABLES
    pc,          \* "idle": no call in progress; "done": a call has returned
    op,          \* the operation that was called
    arg,         \* its arguments
    sent,        \* the requests the call handed to the transport, in order
    reply,       \* the transport's answer to the request (if one was sent)
    demoAccount, \* whether the remote service marks the account asked for as a demo account
    p,           \* the *Profile returned (single-profile operations)
    ps,          \* the []*Profile returned (LoadMany)
    err,         \* the error returned
    escaped      \* whether a panic left the operation instead of a return

vars == <<pc, op, arg, sent, reply, demoAccount, p, ps, err, escaped>>

(***************************************************************************)
(* Bounds of the model.                                                    *)
(***************************************************************************)
MaxEvents == 3    \* longest name-change event array the transport answers with
MaxNames == 2     \* longest freely chosen prefix of LoadMany's username list
MaxEntries == 2   \* longest array the transport answers LoadMany with
MaxProps == 2     \* longest freely chosen "properties" array

(***************************************************************************)
(* Program constants.                                                      *)
(***************************************************************************)
LoadManyMaxSize == 100
StatusNoContent == 204

(***************************************************************************)
(* Decoded JSON, as encoding/json delivers it in an interface{}: a string, *)
(* a float64, a bool, nil, a map[string]interface{} (a function from its   *)
(* keys to values) or a []interface{} (a sequence of values).              *)
(***************************************************************************)
Str(s) == [t |-> "string", s |-> s]
Num(n) == [t |-> "number", n |-> n]
Bool(b) == [t |-> "bool", b |-> b]
Null == [t |-> "null"]
Obj(o) == [t |-> "object", o |-> o]
Arr(a) == [t |-> "array", a |-> a]

NoKeys == <<>>

\* m[k] holds a value of dynamic type ty: the type assertion m[k].(ty) succeeds.
Has(m, k) == k \in DOMAIN m
IsA(m, k, ty) == Has(m, k) /\ m[k].t = ty

\* The objects that have, for the key k, no entry or one of the values vs.
Opt(k, vs) == {NoKeys} \cup {k :> v : v \in vs}
\* The objects made of one object of each of the sets a and b.
Join(a, b) == {x @@ y : x \in a, y \in b}

(***************************************************************************)
(* Errors.                                                                 *)
(***************************************************************************)
NoError == [e |-> "nil"]
ErrNoSuchProfile == [e |-> "ErrNoSuchProfile"]
ErrTooManyRequests == [e |-> "ErrTooManyRequests"]
ErrMaxSizeExceeded(n) == [e |-> "ErrMaxSizeExceeded", Size |-> n]
ErrUnknownFormat == [e |-> "internal.ErrUnknownFormat"]
UrlError(o, u, inner) == [e |-> "url.Error", Op |-> o, URL |-> u, Err |-> inner]
ParseError(u) == UrlError("Parse", u, ErrUnknownFormat)

\* What the transport reports when a request fails: a failed request with the
\* response's status code and the service's error code, or any other error.
ErrFailedRequest(status, code) ==
    [e |-> "internal.ErrFailedRequest", StatusCode |-> status, ErrorCode |-> code]
ErrCanceled == [e |-> "context.Canceled"]

StatusCodes == {StatusNoContent, 429, 500}
ErrorCodes == {"", "TooManyRequestsException", "IllegalArgumentException"}
Failures ==
    {ErrFailedRequest(s, c) : s \in StatusCodes, c \in ErrorCodes} \cup {ErrCanceled}

transformError_codeFirst(src) ==
    IF src.e = "internal.ErrFailedRequest"
    THEN IF src.ErrorCode = "TooManyRequestsException" THEN ErrTooManyRequests
         ELSE IF src.StatusCode = StatusNoContent THEN ErrNoSuchProfile
         ELSE src
    ELSE src

transformError(src) ==
    IF src.e = "internal.ErrFailedRequest"
    THEN IF src.StatusCode = StatusNoContent THEN ErrNoSuchProfile
         ELSE IF src.ErrorCode = "TooManyRequestsException" THEN ErrTooManyRequests
         ELSE src
    ELSE src

(***************************************************************************)
(* Profiles.                                                               *)
(***************************************************************************)
NilProfile == [nil |-> TRUE]
NilProperties == [nil |-> TRUE]
NilSlice == [nil |-> TRUE, elems |-> <<>>]
Slice(s) == [nil |-> FALSE, elems |-> s]
emptyHist == Slice(<<>>)

Profile(id, name, hist, props) ==
    [nil |-> FALSE, ID |-> id, Name |-> name, NameHistory |-> hist, Properties |-> props]

\* The result of a function that may panic instead of returning.
Panic == [panic |-> TRUE]

buildProfile_demoLast(m, demoErr) ==
    IF ~IsA(m, "id", "string") \/ ~IsA(m, "name", "string") THEN Panic
    ELSE IF Has(m, "demo") /\ m["demo"].t # "bool" THEN Panic
    ELSE IF Has(m, "demo") /\ m["demo"].b THEN [panic |-> FALSE, p |-> NilProfile, err |-> demoErr]
    ELSE IF Has(m, "legacy") /\ m["legacy"].t # "bool" THEN Panic
    ELSE [panic |-> FALSE,
          p |-> Profile(m["id"].s, m["name"].s,
                        IF Has(m, "legacy") /\ m["legacy"].b THEN emptyHist ELSE NilSlice,
                        NilProperties),
          err |-> NoError]

buildProfile(m, demoErr) ==
    IF Has(m, "demo") /\ m["demo"].t # "bool" THEN Panic
    ELSE IF Has(m, "demo") /\ m["demo"].b THEN [panic |-> FALSE, p |-> NilProfile, err |-> demoErr]
    ELSE IF ~IsA(m, "id", "string") THEN Panic
    ELSE IF ~IsA(m, "name", "string") THEN Panic
    ELSE IF Has(m, "legacy") /\ m["legacy"].t # "bool" THEN Panic
    ELSE [panic |-> FALSE,
          p |-> Profile(m["id"].s, m["name"].s,
                        IF Has(m, "legacy") /\ m["legacy"].b THEN emptyHist ELSE NilSlice,
                        NilProperties),
          err |-> NoError]

(***************************************************************************)
(* The transport: internal.FetchJSON and internal.ExchangeJSON answer a    *)
(* request with a decoded JSON document or with a failure.                 *)
(***************************************************************************)
NoReply == [kind |-> "none"]
Json(j) == [kind |-> "json", j |-> j]
Failure(f) == [kind |-> "failure", err |-> f]

Endpoint(u, a) == [url |-> u, args |-> a]
Get(endpoint) == [method |-> "GET", endpoint |-> endpoint]
Post(endpoint, payload) == [method |-> "POST", endpoint |-> endpoint, payload |-> payload]

\* The profile documents the by-name endpoints answer with.
IDs == {"", "id1"}
Usernames == {"", "a", "b"}
ProfileDocs ==
    Join(Join(Opt("id", {Str(i) : i \in IDs} \cup {Num(1)}),
              Opt("name", {Str(n) : n \in Usernames} \cup {Num(2)})),
         Join(Opt("demo", {Bool(TRUE), Bool(FALSE), Str("true")}),
              Opt("legacy", {Bool(TRUE), Bool(FALSE), Null})))

IsDemoDoc(j) == j.t = "object" /\ IsA(j.o, "demo", "bool") /\ j.o["demo"].b

ProfileReplies ==
    {Json(Obj(m)) : m \in ProfileDocs} \cup {Json(Arr(<<>>)), Json(Null)}
        \cup {Failure(f) : f \in Failures}

(***************************************************************************)
(* Load and LoadAtTime.                                                    *)
(***************************************************************************)
\* The results of a call: p, ps, err, and whether a panic escaped.
\* Every operation recovers from the panics of its decoding (its deferred
\* function), so none of its results is a panic that escaped.
Result(pr, pl, e) == [p |-> pr, ps |-> pl, err |-> e, escaped |-> FALSE]

loadByName(endpoint, r) ==
    IF r.kind = "failure" THEN Result(NilProfile, NilSlice, transformError(r.err))
    ELSE IF r.j.t # "object" THEN Result(NilProfile, NilSlice, ParseError(endpoint))
    ELSE LET b == buildProfile(r.j.o, ErrNoSuchProfile)
         IN  IF b.panic THEN Result(NilProfile, NilSlice, ParseError(endpoint))
             ELSE Result(b.p, NilSlice, b.err)

\* A call that returns before it sends a request.
ReturnEarly(o, a, res) ==
    /\ pc' = "done"
    /\ op' = o
    /\ arg' = a
    /\ sent' = <<>>
    /\ reply' = NoReply
    /\ demoAccount' = FALSE
    /\ p' = res.p
    /\ ps' = res.ps
    /\ err' = res.err
    /\ escaped' = res.escaped

\* A call that sends the request req, is answered r, and returns res.
ReturnAfter(o, a, req, r, demo, res) ==
    /\ pc' = "done"
    /\ op' = o
    /\ arg' = a
    /\ sent' = <<req>>
    /\ reply' = r
    /\ demoAccount' = demo
    /\ p' = res.p
    /\ ps' = res.ps
    /\ err' = res.err
    /\ escaped' = res.escaped

Load ==
    /\ pc = "idle"
    /\ \E username \in Usernames :
        IF username = ""
        THEN ReturnEarly("Load", <<username>>, Result(NilProfile, NilSlice, ErrNoSuchProfile))
        ELSE \E r \in ProfileReplies :
                LET endpoint == Endpoint("loadURL", <<username>>)
                IN  ReturnAfter("Load", <<username>>, Get(endpoint), r,
                                r.kind = "json" /\ IsDemoDoc(r.j),
                                loadByName(endpoint, r))

Instants == {0, 1500000000}

LoadAtTime ==
    /\ pc = "idle"
    /\ \E username \in Usernames, tm \in Instants :
        IF username = ""
        THEN ReturnEarly("LoadAtTime", <<username, tm>>,
                         Result(NilProfile, NilSlice, ErrNoSuchProfile))
        ELSE \E r \in ProfileReplies :
                LET endpoint == Endpoint("loadAtTimeURL", <<username, tm>>)
                IN  ReturnAfter("LoadAtTime", <<username, tm>>, Get(endpoint), r,
                                r.kind = "json" /\ IsDemoDoc(r.j),
                                loadByName(endpoint, r))

(***************************************************************************)
(* Name histories.                                                         *)
(***************************************************************************)
\* A time.Time: the zero value, or what time.Unix(sec, nsec) returns.
ZeroTime == [zero |-> TRUE]
Time(sec, nsec) == [zero |-> FALSE, sec |-> sec, nsec |-> nsec]

PastName(name, until) == [Name |-> name, Until |-> until]

\* Go's integer division, which truncates toward zero.
Quot(a, b) == IF a >= 0 THEN a \div b ELSE -((-a) \div b)

\* time.Unix(sec, nsec): nsec is brought into [0, 999999999].
Unix(sec, nsec) ==
    IF nsec < 0 \/ nsec >= 1000000000
    THEN LET n == Quot(nsec, 1000000000)
             s1 == sec + n
             ns1 == nsec - n * 1000000000
         IN  IF ns1 < 0 THEN Time(s1 - 1, ns1 + 1000000000) ELSE Time(s1, ns1)
    ELSE Time(sec, nsec)

msToTime_floorSeconds(ms) == Time(ms \div 1000, 0)

msToTime(ms) ==
    LET s == Quot(ms, 1000)
        ns == (ms - s * 1000) * 1000000
    IN  Unix(s, ns)

\* The loop of buildHistory from Go index i on (arr[i + 1] here), with the
\* history built so far and the Go index h of the next entry to name.
RECURSIVE buildHistoryFrom(_, _, _, _)
buildHistoryFrom(arr, i, hist, h) ==
    IF i >= Len(arr) THEN [panic |-> FALSE, name |-> "", hist |-> hist]
    ELSE IF arr[i + 1].t # "object" THEN Panic
    ELSE LET m == arr[i + 1].o
             untilSet == Has(m, "changedToAt") /\ i > 0
         IN  IF untilSet /\ m["changedToAt"].t # "number" THEN Panic
             ELSE IF untilSet /\ (h + 2) \notin DOMAIN hist THEN Panic
             ELSE LET hist1 == IF untilSet
                               THEN [hist EXCEPT ![h + 2].Until = msToTime(m["changedToAt"].n)]
                               ELSE hist
                  IN  IF ~IsA(m, "name", "string") THEN Panic
                      ELSE IF i = Len(hist)
                      THEN [panic |-> FALSE, name |-> m["name"].s, hist |-> hist1]
                      ELSE IF (h + 1) \notin DOMAIN hist THEN Panic
                      ELSE buildHistoryFrom(arr, i + 1,
                                            [hist1 EXCEPT ![h + 1].Name = m["name"].s], h - 1)

RECURSIVE buildHistory_oldestFirstFrom(_, _, _)
buildHistory_oldestFirstFrom(arr, i, hist) ==
    IF arr[i + 1].t # "object" \/ ~IsA(arr[i + 1].o, "name", "string") THEN Panic
    ELSE IF i = Len(arr) - 1
    THEN [panic |-> FALSE, name |-> arr[i + 1].o["name"].s, hist |-> Slice(hist)]
    ELSE IF Has(arr[i + 2].o, "changedToAt") /\ arr[i + 2].o["changedToAt"].t # "number"
    THEN Panic
    ELSE buildHistory_oldestFirstFrom(arr, i + 1,
            Append(hist, PastName(arr[i + 1].o["name"].s,
                                  IF Has(arr[i + 2].o, "changedToAt")
                                  THEN msToTime(arr[i + 2].o["changedToAt"].n)
                                  ELSE ZeroTime)))

\* The history in the order of the events, oldest first.
buildHistory_oldestFirst(arr) ==
    IF Len(arr) = 0 THEN [panic |-> FALSE, name |-> "", hist |-> NilSlice]
    ELSE IF \E k \in 1..Len(arr) : arr[k].t # "object" THEN Panic
    ELSE buildHistory_oldestFirstFrom(arr, 0, <<>>)

\* An event without its changedToAt, if that is not a number.
DropBadInstant(e) ==
    IF e.t = "object" /\ Has(e.o, "changedToAt") /\ e.o["changedToAt"].t # "number"
    THEN Obj([k \in (DOMAIN e.o) \ {"changedToAt"} |-> e.o[k]])
    ELSE e

\* The history with every changedToAt that is not a number taken as absent.
buildHistory_lenientInstants(arr) ==
    IF Len(arr) = 0 THEN [panic |-> FALSE, name |-> "", hist |-> NilSlice]
    ELSE LET r == buildHistoryFrom([k \in 1..Len(arr) |-> DropBadInstant(arr[k])], 0,
                                   [k \in 1..(Len(arr) - 1) |-> PastName("", ZeroTime)],
                                   Len(arr) - 2)
         IN  IF r.panic THEN Panic
             ELSE [panic |-> FALSE, name |-> r.name, hist |-> Slice(r.hist)]

buildHistory(arr) ==
    IF Len(arr) = 0 THEN [panic |-> FALSE, name |-> "", hist |-> NilSlice]
    ELSE LET r == buildHistoryFrom(arr, 0,
                                   [k \in 1..(Len(arr) - 1) |-> PastName("", ZeroTime)],
                                   Len(arr) - 2)
         IN  IF r.panic THEN Panic
             ELSE [panic |-> FALSE, name |-> r.name, hist |-> Slice(r.hist)]

\* The name-change events the names endpoint answers with.
ChangedToAts == {1500, -2500}
Events ==
    {Obj(m) : m \in Join(Opt("name", {Str("a"), Str("b"), Num(2)}),
                         Opt("changedToAt", {Num(n) : n \in ChangedToAts} \cup {Str("x")}))}
        \cup {Str("a")}

RECURSIVE SeqsUpTo(_, _)
SeqsUpTo(S, n) ==
    IF n = 0 THEN {<<>>}
    ELSE LET shorter == SeqsUpTo(S, n - 1)
         IN  shorter \cup {Append(s, x) : s \in {t \in shorter : Len(t) = n - 1}, x \in S}

HistoryReplies ==
    {Json(Arr(a)) : a \in SeqsUpTo(Events, MaxEvents)} \cup {Json(Obj(NoKeys))}
        \cup {Failure(f) : f \in Failures}

(***************************************************************************)
(* LoadByID and LoadWithNameHistory.                                       *)
(***************************************************************************)
loadWithNameHistory(id, endpoint, r) ==
    IF r.kind = "failure" THEN Result(NilProfile, NilSlice, transformError(r.err))
    ELSE IF r.j.t # "array" THEN Result(NilProfile, NilSlice, ParseError(endpoint))
    ELSE LET b == buildHistory(r.j.a)
         IN  IF b.panic THEN Result(NilProfile, NilSlice, ParseError(endpoint))
             ELSE Result(Profile(id, b.name, b.hist, NilProperties), NilSlice, NoError)

\* The body of LoadWithNameHistory, called as o.
NameHistoryCall(o) ==
    /\ pc = "idle"
    /\ \E id \in IDs :
        IF id = ""
        THEN ReturnEarly(o, <<id>>, Result(NilProfile, NilSlice, ErrNoSuchProfile))
        ELSE \E r \in HistoryReplies, demo \in BOOLEAN :
                LET endpoint == Endpoint("loadWithNameHistoryURL", <<id>>)
                IN  ReturnAfter(o, <<id>>, Get(endpoint), r, demo,
                                loadWithNameHistory(id, endpoint, r))

LoadWithNameHistory == NameHistoryCall("LoadWithNameHistory")

LoadByID == NameHistoryCall("LoadByID")

(***************************************************************************)
(* Properties: the "textures" attachment.                                  *)
(***************************************************************************)
\* A string value given by its bytes (a profile identifier).
Bytes(b) == [t |-> "string", bytes |-> b]
\* A string value given by what base64.StdEncoding.DecodeString and then
\* json.Decoder.Decode into a map[string]interface{} make of it.
Encoded(d) == [t |-> "string", enc |-> d]
CorruptInput == [err |-> [e |-> "base64.CorruptInputError"]]
SyntaxError == [err |-> [e |-> "json.SyntaxError"]]
Decoded(j) == [err |-> NoError, j |-> j]
\* A string that was not written as an attachment is not valid base64.
DecodeTextures(v) == IF "enc" \in DOMAIN v THEN v.enc ELSE CorruptInput

ModelUnset == "unset"
Steve == "Steve"
Alex == "Alex"

Properties(skin, cape, model) ==
    [nil |-> FALSE, SkinURL |-> skin, CapeURL |-> cape, Model |-> model]
NewProperties == Properties("", "", ModelUnset)

\* The parity of the byte itself, for letters as for decimal digits.
isEven_byteParity(c) ==
    CASE c >= 48 /\ c <= 57 -> [panic |-> FALSE, even |-> (c % 2) = 0]
      [] c >= 97 /\ c <= 102 -> [panic |-> FALSE, even |-> (c % 2) = 0]
      [] OTHER -> Panic

isEven(c) ==
    CASE c >= 48 /\ c <= 57 -> [panic |-> FALSE, even |-> (c % 2) = 0]
      [] c >= 97 /\ c <= 102 -> [panic |-> FALSE, even |-> (c % 2) = 1]
      [] OTHER -> Panic

\* uuid[i] of Go is uuid[i + 1] here; an index out of range panics.
\* defaultModel reading the first digit of the identifier in place of uuid[7].
defaultModel_firstDigit(uuid) ==
    IF Len(uuid) < 32 THEN Panic
    ELSE LET e7 == isEven(uuid[0 + 1])
             e23 == isEven(uuid[16 + 7 + 1])
             e15 == isEven(uuid[15 + 1])
             e31 == isEven(uuid[16 + 15 + 1])
         IN  IF e7.panic \/ e23.panic \/ e15.panic \/ e31.panic THEN Panic
             ELSE [panic |-> FALSE,
                   model |-> IF (e7.even # e23.even) # (e15.even # e31.even)
                             THEN Alex ELSE Steve]

defaultModel(uuid) ==
    IF Len(uuid) < 32 THEN Panic
    ELSE LET e7 == isEven(uuid[7 + 1])
             e23 == isEven(uuid[16 + 7 + 1])
             e15 == isEven(uuid[15 + 1])
             e31 == isEven(uuid[16 + 15 + 1])
         IN  IF e7.panic \/ e23.panic \/ e15.panic \/ e31.panic THEN Panic
             ELSE [panic |-> FALSE,
                   model |-> IF (e7.even # e23.even) # (e15.even # e31.even)
                             THEN Alex ELSE Steve]

\* The Model and SkinURL populateTextures sets from the "textures" object ts
\* of the attachment j, with Steve for an attachment without a skin.
skinOf_steveDefault(ts, j, props) ==
    IF Has(ts, "SKIN")
    THEN IF ts["SKIN"].t # "object" THEN Panic
         ELSE LET skin == ts["SKIN"].o
              IN  IF ~IsA(skin, "url", "string") THEN Panic
                  ELSE IF Has(skin, "metadata") /\ skin["metadata"].t # "object" THEN Panic
                  ELSE IF Has(skin, "metadata") /\ Has(skin["metadata"].o, "model")
                          /\ skin["metadata"].o["model"].t # "string" THEN Panic
                  ELSE [panic |-> FALSE,
                        props |-> [props EXCEPT
                            !.SkinURL = skin["url"].s,
                            !.Model = IF Has(skin, "metadata")
                                         /\ Has(skin["metadata"].o, "model")
                                         /\ skin["metadata"].o["model"].s = "slim"
                                      THEN Alex ELSE Steve]]
    ELSE [panic |-> FALSE, props |-> [props EXCEPT !.Model = Steve]]

\* The Model and SkinURL populateTextures sets from the "textures" object ts
\* of the attachment j.
skinOf(ts, j, props) ==
    IF Has(ts, "SKIN")
    THEN IF ts["SKIN"].t # "object" THEN Panic
         ELSE LET skin == ts["SKIN"].o
              IN  IF ~IsA(skin, "url", "string") THEN Panic
                  ELSE IF Has(skin, "metadata") /\ skin["metadata"].t # "object" THEN Panic
                  ELSE IF Has(skin, "metadata") /\ Has(skin["metadata"].o, "model")
                          /\ skin["metadata"].o["model"].t # "string" THEN Panic
                  ELSE [panic |-> FALSE,
                        props |-> [props EXCEPT
                            !.SkinURL = skin["url"].s,
                            !.Model = IF Has(skin, "metadata")
                                         /\ Has(skin["metadata"].o, "model")
                                         /\ skin["metadata"].o["model"].s = "slim"
                                      THEN Alex ELSE Steve]]
    ELSE IF ~IsA(j, "profileId", "string") THEN Panic
    ELSE LET d == defaultModel(j["profileId"].bytes)
         IN  IF d.panic THEN Panic
             ELSE [panic |-> FALSE, props |-> [props EXCEPT !.Model = d.model]]

\* The CapeURL populateTextures sets.
capeOf(ts, props) ==
    IF Has(ts, "CAPE")
    THEN IF ts["CAPE"].t # "object" THEN Panic
         ELSE IF ~IsA(ts["CAPE"].o, "url", "string") THEN Panic
         ELSE [panic |-> FALSE, props |-> [props EXCEPT !.CapeURL = ts["CAPE"].o["url"].s]]
    ELSE [panic |-> FALSE, props |-> props]

\* populateTextures returns an error, panics, or returns nil with props populated.
populateTextures(enc, props) ==
    LET d == DecodeTextures(enc)
    IN  IF d.err # NoError THEN [panic |-> FALSE, err |-> d.err, props |-> props]
        ELSE IF ~IsA(d.j, "textures", "object") THEN Panic
        ELSE LET ts == d.j["textures"].o
                 s == skinOf(ts, d.j, props)
             IN  IF s.panic THEN Panic
                 ELSE LET c == capeOf(ts, s.props)
                      IN  IF c.panic THEN Panic
                          ELSE [panic |-> FALSE, err |-> NoError, props |-> c.props]

\* The loop of buildProperties from props[i] on, with ps populated so far.
RECURSIVE buildPropertiesFrom(_, _, _)
buildPropertiesFrom(props, i, acc) ==
    IF i > Len(props) THEN [panic |-> FALSE, ps |-> acc, err |-> NoError]
    ELSE IF props[i].t # "object" THEN Panic
    ELSE IF ~IsA(props[i].o, "name", "string") THEN Panic
    ELSE IF ~IsA(props[i].o, "value", "string") THEN Panic
    ELSE IF props[i].o["name"].s = "textures"
    THEN LET r == populateTextures(props[i].o["value"], acc)
         IN  IF r.panic THEN Panic
             ELSE IF r.err # NoError
             THEN [panic |-> FALSE, ps |-> NilProperties, err |-> r.err]
             ELSE buildPropertiesFrom(props, i + 1, r.props)
    ELSE buildPropertiesFrom(props, i + 1, acc)

buildProperties(props) == buildPropertiesFrom(props, 1, NewProperties)

\* The profile identifiers of attachments: 32 bytes, '0' (48) but at the
\* first position and at the four positions defaultModel reads.
UUID(c0, c7, c15, c23, c31) ==
    [k \in 1..32 |->
        CASE k = 1 -> c0 [] k = 8 -> c7 [] k = 16 -> c15 [] k = 24 -> c23 [] k = 32 -> c31
          [] OTHER -> 48]
\* '0', '1', '9', 'a', 'b', 'f'
HexDigits == {48, 49, 57, 97, 98, 102}
\* '/', ':', 'A', '`', 'g'
OtherBytes == {47, 58, 65, 96, 103}
UUIDs ==
    {UUID(c0, c7, c15, c23, c31) :
        c0 \in {48, 102}, c7 \in HexDigits, c15 \in {48, 49, 97, 98},
        c23 \in {48, 49, 97, 98}, c31 \in {48, 49, 97, 98}}
BadUUIDs ==
    {UUID(48, c, 48, 48, 48) : c \in OtherBytes} \cup {UUID(48, 48, 48, 48, c) : c \in OtherBytes}
        \cup {<<>>, [k \in 1..31 |-> 48], [k \in 1..8 |-> 49]}
AlexUUID == UUID(48, 49, 48, 48, 48)

Capes == Opt("CAPE", {Obj("url" :> Str("http://cape"))})
BadCapes == {"CAPE" :> Str("http://cape"), "CAPE" :> Obj(NoKeys), "CAPE" :> Obj("url" :> Num(1))}
Metadatas ==
    {Obj(m) : m \in Opt("model", {Str("slim"), Str("default"), Str("")})}
Skins ==
    {"SKIN" :> Obj(sk) : sk \in Join({"url" :> Str("http://skin")}, Opt("metadata", Metadatas))}
BadSkins ==
    {"SKIN" :> Null, "SKIN" :> Obj(NoKeys), "SKIN" :> Obj("url" :> Num(1)),
     "SKIN" :> Obj("url" :> Str("http://skin") @@ "metadata" :> Str("slim")),
     "SKIN" :> Obj("url" :> Str("http://skin") @@ "metadata" :> Obj("model" :> Num(1)))}

\* The attachments: those without a skin, with every identifier; those with
\* a skin, with some identifiers; and those of another shape.
Attachments ==
    {"textures" :> Obj(c) @@ "profileId" :> Bytes(u) : c \in Capes, u \in UUIDs \cup BadUUIDs}
    \cup {"textures" :> Obj(sk @@ c) @@ i :
            sk \in Skins \cup BadSkins, c \in Capes \cup BadCapes,
            i \in Opt("profileId", {Bytes(AlexUUID), Bytes(<<>>)})}
    \cup {"textures" :> Obj(c) @@ i : c \in Capes \cup BadCapes, i \in Opt("profileId", {Num(1)})}
    \cup {NoKeys, "profileId" :> Bytes(AlexUUID), "textures" :> Null @@ "profileId" :> Bytes(AlexUUID)}

EncodedValues ==
    {Encoded(Decoded(j)) : j \in Attachments} \cup {Encoded(CorruptInput), Encoded(SyntaxError)}

Property(name, value) == Obj("name" :> name @@ "value" :> value)
TextureProperties == {Property(Str("textures"), v) : v \in EncodedValues}
\* The properties the longer "properties" arrays are made of.
SomeProperties ==
    {Property(Str("textures"),
              Encoded(Decoded("textures" :> Obj("SKIN" :> Obj("url" :> Str("http://skin")))))),
     Property(Str("textures"),
              Encoded(Decoded("textures" :> Obj("CAPE" :> Obj("url" :> Str("http://cape")))
                              @@ "profileId" :> Bytes(AlexUUID)))),
     Property(Str("textures"), Encoded(SyntaxError)),
     Property(Str("textures"), Str("?")),
     Property(Str("uploadableTextures"), Str("skin")),
     Property(Str("uploadableTextures"), Num(1)),
     Obj("value" :> Str("skin")),
     Null}

PropertyArrays ==
    {<<x>> : x \in TextureProperties} \cup SeqsUpTo(SomeProperties, MaxProps)

\* The documents the properties endpoint answers with.
BasicDocs ==
    {"id" :> Str("id1") @@ "name" :> Str("a"),
     "id" :> Str("id1") @@ "name" :> Str("a") @@ "legacy" :> Bool(TRUE) @@ "demo" :> Bool(FALSE),
     "id" :> Str("id1") @@ "name" :> Str("a") @@ "demo" :> Bool(TRUE),
     "id" :> Str("id1") @@ "name" :> Str("a") @@ "demo" :> Null,
     "id" :> Str("id1")}
PropertiesDocs ==
    {m @@ "properties" :> Arr(a) : m \in BasicDocs, a \in PropertyArrays}
        \cup {m @@ x : m \in BasicDocs, x \in Opt("properties", {Null, Obj(NoKeys)})}

PropertiesReplies ==
    {Json(Obj(m)) : m \in PropertiesDocs} \cup {Json(Arr(<<>>)), Json(Null)}
        \cup {Failure(f) : f \in Failures}

(***************************************************************************)
(* LoadWithProperties.                                                     *)
(***************************************************************************)
\* LoadWithProperties whose recovery from a panic leaves p as it is.
loadWithProperties_keepsProfile(endpoint, r) ==
    IF r.kind = "failure" THEN Result(NilProfile, NilSlice, transformError(r.err))
    ELSE IF r.j.t # "object" THEN Result(NilProfile, NilSlice, ParseError(endpoint))
    ELSE LET m == r.j.o
             b == buildProfile(m, ErrNoSuchProfile)
         IN  IF b.panic THEN Result(NilProfile, NilSlice, ParseError(endpoint))
             ELSE IF b.err # NoError THEN Result(b.p, NilSlice, b.err)
             ELSE IF ~IsA(m, "properties", "array")
             THEN Result(b.p, NilSlice, ParseError(endpoint))
             ELSE LET bp == buildProperties(m["properties"].a)
                  IN  IF bp.panic THEN Result(b.p, NilSlice, ParseError(endpoint))
                      ELSE IF bp.err # NoError
                      THEN Result(NilProfile, NilSlice, UrlError("Parse", endpoint, bp.err))
                      ELSE Result([b.p EXCEPT !.Properties = bp.ps], NilSlice, NoError)

loadWithProperties(endpoint, r) ==
    IF r.kind = "failure" THEN Result(NilProfile, NilSlice, transformError(r.err))
    ELSE IF r.j.t # "object" THEN Result(NilProfile, NilSlice, ParseError(endpoint))
    ELSE LET m == r.j.o
             b == buildProfile(m, ErrNoSuchProfile)
         IN  IF b.panic THEN Result(NilProfile, NilSlice, ParseError(endpoint))
             ELSE IF b.err # NoError THEN Result(b.p, NilSlice, b.err)
             ELSE IF ~IsA(m, "properties", "array")
             THEN Result(NilProfile, NilSlice, ParseError(endpoint))
             ELSE LET bp == buildProperties(m["properties"].a)
                  IN  IF bp.panic THEN Result(NilProfile, NilSlice, ParseError(endpoint))
                      ELSE IF bp.err # NoError
                      THEN Result(NilProfile, NilSlice, UrlError("Parse", endpoint, bp.err))
                      ELSE Result([b.p EXCEPT !.Properties = bp.ps], NilSlice, NoError)

LoadWithProperties ==
    /\ pc = "idle"
    /\ \E id \in IDs :
        IF id = ""
        THEN ReturnEarly("LoadWithProperties", <<id>>,
                         Result(NilProfile, NilSlice, ErrNoSuchProfile))
        ELSE \E r \in PropertiesReplies :
                LET endpoint == Endpoint("loadWithPropertiesURL", <<id>>)
                IN  ReturnAfter("LoadWithProperties", <<id>>, Get(endpoint), r,
                                r.kind = "json" /\ IsDemoDoc(r.j),
                                loadWithProperties(endpoint, r))

(***************************************************************************)
(* LoadMany.                                                               *)
(***************************************************************************)
\* users[:c]: the usernames that are not empty, in their order.
nonEmpty(username) == SelectSeq(username, LAMBDA u : u # "")

\* The loop of LoadMany over the response array j from j[i] on, with the
\* profiles appended so far; the statement after the loop sets err to nil.
RECURSIVE profilesFrom(_, _, _)
profilesFrom(j, i, acc) ==
    IF i > Len(j) THEN Result(NilProfile, Slice(acc), NoError)
    ELSE IF j[i].t # "object" THEN Result(NilProfile, NilSlice, ParseError("loadManyURL"))
    ELSE LET b == buildProfile(j[i].o, ErrNoSuchProfile)
         IN  IF b.panic THEN Result(NilProfile, NilSlice, ParseError("loadManyURL"))
             ELSE IF b.err # NoError
             THEN IF b.err = ErrNoSuchProfile THEN profilesFrom(j, i + 1, acc)
                  ELSE Result(NilProfile, NilSlice, b.err)
             ELSE profilesFrom(j, i + 1, Append(acc, b.p))

\* The loop without the statement after it: err keeps the last entry's error.
RECURSIVE profilesFrom_lastErr(_, _, _, _)
profilesFrom_lastErr(j, i, acc, last) ==
    IF i > Len(j) THEN Result(NilProfile, Slice(acc), last)
    ELSE IF j[i].t # "object" THEN Result(NilProfile, NilSlice, ParseError("loadManyURL"))
    ELSE LET b == buildProfile(j[i].o, ErrNoSuchProfile)
         IN  IF b.panic THEN Result(NilProfile, NilSlice, ParseError("loadManyURL"))
             ELSE IF b.err # NoError
             THEN IF b.err = ErrNoSuchProfile THEN profilesFrom_lastErr(j, i + 1, acc, b.err)
                  ELSE Result(NilProfile, NilSlice, b.err)
             ELSE profilesFrom_lastErr(j, i + 1, Append(acc, b.p), NoError)

loadManyReply_lastErr(r) ==
    IF r.kind = "failure" THEN Result(NilProfile, NilSlice, transformError(r.err))
    ELSE IF r.j.t # "array" THEN Result(NilProfile, NilSlice, ParseError("loadManyURL"))
    ELSE profilesFrom_lastErr(r.j.a, 1, <<>>, NoError)

\* What LoadMany makes of the transport's answer r.
loadManyReply(r) ==
    IF r.kind = "failure" THEN Result(NilProfile, NilSlice, transformError(r.err))
    ELSE IF r.j.t # "array" THEN Result(NilProfile, NilSlice, ParseError("loadManyURL"))
    ELSE profilesFrom(r.j.a, 1, <<>>)

\* The request LoadMany sends for its usernames: none (<<>>) or one.
loadManyRequest_offByOne(username) ==
    IF Len(username) >= LoadManyMaxSize \/ Len(nonEmpty(username)) = 0 THEN <<>>
    ELSE <<Post("loadManyURL", nonEmpty(username))>>

loadManyRequest(username) ==
    IF Len(username) > LoadManyMaxSize \/ Len(nonEmpty(username)) = 0 THEN <<>>
    ELSE <<Post("loadManyURL", nonEmpty(username))>>

\* What LoadMany returns when it sends no request.
loadManyEarly(username) ==
    IF Len(username) > LoadManyMaxSize
    THEN Result(NilProfile, NilSlice, ErrMaxSizeExceeded(Len(username)))
    ELSE Result(NilProfile, NilSlice, NoError)

\* The username lists: a short list of any usernames, followed by none or by
\* about LoadManyMaxSize copies of one username.
Paddings ==
    {<<>>} \cup {[k \in 1..n |-> u] : n \in {LoadManyMaxSize - 1, LoadManyMaxSize}, u \in {"", "a"}}
UsernameLists == {x \o y : x \in SeqsUpTo(Usernames, MaxNames), y \in Paddings}

\* The entries of the array the batch endpoint answers with.
BatchEntries ==
    {Obj("id" :> Str("id1") @@ "name" :> Str("a")),
     Obj("id" :> Str("id2") @@ "name" :> Str("b") @@ "legacy" :> Bool(TRUE)),
     Obj("id" :> Str("id3") @@ "name" :> Str("c") @@ "demo" :> Bool(TRUE)),
     Obj("demo" :> Bool(TRUE)),
     Obj("id" :> Str("id4")),
     Str("id1")}
BatchReplies ==
    {Json(Arr(a)) : a \in SeqsUpTo(BatchEntries, MaxEntries)} \cup {Json(Obj(NoKeys))}
        \cup {Failure(f) : f \in Failures}

LoadMany ==
    /\ pc = "idle"
    /\ \E username \in UsernameLists :
        LET req == loadManyRequest(username)
        IN  IF req = <<>>
            THEN ReturnEarly("LoadMany", username, loadManyEarly(username))
            ELSE \E r \in BatchReplies :
                    /\ pc' = "done"
                    /\ op' = "LoadMany"
                    /\ arg' = username
                    /\ sent' = req
                    /\ reply' = r
                    /\ demoAccount' = (r.kind = "json" /\ r.j.t = "array"
                                        /\ \E i \in 1..Len(r.j.a) : IsDemoDoc(r.j.a[i]))
                    /\ LET res == loadManyReply(r)
                       IN  /\ p' = res.p
                           /\ ps' = res.ps
                           /\ err' = res.err
                           /\ escaped' = res.escaped

(***************************************************************************)
(* The client takes the results and is ready for its next call.            *)
(***************************************************************************)
Init ==
    /\ pc = "idle"
    /\ op = "none"
    /\ arg = <<>>
    /\ sent = <<>>
    /\ reply = NoReply
    /\ demoAccount = FALSE
    /\ p = NilProfile
    /\ ps = NilSlice
    /\ err = NoError
    /\ escaped = FALSE

Return ==
    /\ pc = "done"
    /\ pc' = "idle"
    /\ op' = "none"
    /\ arg' = <<>>
    /\ sent' = <<>>
    /\ reply' = NoReply
    /\ demoAccount' = FALSE
    /\ p' = NilProfile
    /\ ps' = NilSlice
    /\ err' = NoError
    /\ escaped' = FALSE

Next ==
    \/ Load
    \/ LoadAtTime
    \/ LoadByID
    \/ LoadWithNameHistory
    \/ LoadWithProperties
    \/ LoadMany
    \/ Return

Spec == Init /\ [][Next]_vars

(***************************************************************************)
(* Properties of the name history.                                         *)
(***************************************************************************)
\* A call of LoadByID or LoadWithNameHistory in which buildHistory returned.
HistoryBuilt ==
    /\ pc = "done"
    /\ op \in {"LoadByID", "LoadWithNameHistory"}
    /\ reply.kind = "json"
    /\ reply.j.t = "array"
    /\ err = NoError

\* The instant a set time.Time denotes, in milliseconds since the epoch.
TimeMs(t) == t.sec * 1000 + t.nsec \div 1000000
\* until is set and denotes the instant ms.
IsInstant(until, ms) ==
    /\ ~until.zero
    /\ until.nsec \in 0..999999999
    /\ until.nsec % 1000000 = 0
    /\ TimeMs(until) = ms

\* C1: for an event list of length n >= 1 (oldest first) buildHistory returns
\* the name of the last event as the current name and a history of n-1
\* entries, most recent first: entry k names event n-2-k.  For the empty list
\* it returns an empty name and an empty history.
C1_HistoryOrder ==
    HistoryBuilt =>
        LET a == reply.j.a
            n == Len(a)
            hist == p.NameHistory.elems
        IN  /\ ~p.nil
            /\ n = 0 => p.Name = "" /\ hist = <<>>
            /\ n >= 1 =>
                /\ p.Name = a[n].o["name"].s
                /\ Len(hist) = n - 1
                /\ \A k \in 0..(n - 2) : hist[k + 1].Name = a[(n - 2 - k) + 1].o["name"].s

C1_Witness ==
    /\ HistoryBuilt
    /\ Len(reply.j.a) = 3
    /\ reply.j.a[1].o["name"].s # reply.j.a[2].o["name"].s
    /\ p.Name = reply.j.a[3].o["name"].s
    /\ Len(p.NameHistory.elems) = 2

C1_EmptyWitness ==
    HistoryBuilt /\ Len(reply.j.a) = 0 /\ p.Name = ""

\* C2, as claimed: in the history built from n >= 2 events, the entry of every
\* event i < n-1 has its Until set, to the changedToAt instant of event i+1.
C2_UntilAlwaysSet ==
    HistoryBuilt /\ Len(reply.j.a) >= 2 =>
        LET a == reply.j.a
            n == Len(a)
            hist == p.NameHistory.elems
        IN  \A i \in 0..(n - 2) :
                /\ IsA(a[i + 2].o, "changedToAt", "number")
                /\ IsInstant(hist[(n - 2 - i) + 1].Until, a[i + 2].o["changedToAt"].n)

\* C2, amended: the entry of event i < n-1 has its Until set exactly when
\* event i+1 carries a changedToAt, and then to that instant; otherwise Until
\* keeps its zero value.  A changedToAt of the first event is never used.
C2_UntilFromNextEvent ==
    HistoryBuilt /\ Len(reply.j.a) >= 2 =>
        LET a == reply.j.a
            n == Len(a)
            hist == p.NameHistory.elems
        IN  \A i \in 0..(n - 2) :
                IF Has(a[i + 2].o, "changedToAt")
                THEN IsInstant(hist[(n - 2 - i) + 1].Until, a[i + 2].o["changedToAt"].n)
                ELSE hist[(n - 2 - i) + 1].Until = ZeroTime

C2_Witness ==
    /\ HistoryBuilt
    /\ Len(reply.j.a) = 3
    /\ Has(reply.j.a[1].o, "changedToAt")
    /\ IsA(reply.j.a[2].o, "changedToAt", "number")
    /\ IsA(reply.j.a[3].o, "changedToAt", "number")
    /\ reply.j.a[2].o["changedToAt"].n < 0
    /\ reply.j.a[3].o["changedToAt"].n > 0
    /\ IsInstant(p.NameHistory.elems[1].Until, reply.j.a[3].o["changedToAt"].n)
    /\ IsInstant(p.NameHistory.elems[2].Until, reply.j.a[2].o["changedToAt"].n)

(***************************************************************************)
(* Properties of the load operations.                                      *)
(***************************************************************************)
SingleOps == {"Load", "LoadAtTime", "LoadByID", "LoadWithNameHistory", "LoadWithProperties"}
DocumentOps == {"Load", "LoadAtTime", "LoadWithProperties"}

\* A call that was answered with a JSON document.
Answered == pc = "done" /\ reply.kind = "json"
\* A call of LoadMany that was answered with a JSON array.
BatchAnswered == Answered /\ op = "LoadMany" /\ reply.j.t = "array"

IsParseError(e) == e.e = "url.Error" /\ e.Op = "Parse"

\* A document that buildProfile makes a Profile of.
EntryBuilds(e) ==
    /\ e.t = "object"
    /\ IsA(e.o, "id", "string") /\ IsA(e.o, "name", "string")
    /\ Has(e.o, "demo") => IsA(e.o, "demo", "bool") /\ ~e.o["demo"].b
    /\ Has(e.o, "legacy") => IsA(e.o, "legacy", "bool")

\* C3, as claimed: no load operation returns a Profile for an account the
\* remote service marks as a demo account.
C3_NoDemoProfile ==
    /\ pc = "done" /\ op \in SingleOps /\ demoAccount => p = NilProfile
    /\ BatchAnswered =>
        \A k \in 1..Len(reply.j.a) : \A i \in 1..Len(ps.elems) :
            IsDemoDoc(reply.j.a[k]) /\ IsA(reply.j.a[k].o, "id", "string")
                => ps.elems[i].ID # reply.j.a[k].o["id"].s

\* C4: a document whose "demo" flag is true yields no Profile and
\* ErrNoSuchProfile, whatever its other fields are.
C4_DemoDocument ==
    Answered /\ op \in DocumentOps /\ IsDemoDoc(reply.j) =>
        p = NilProfile /\ err = ErrNoSuchProfile

C4_Witness ==
    /\ Answered /\ op = "Load" /\ IsDemoDoc(reply.j)
    /\ ~Has(reply.j.o, "name")
    /\ IsA(reply.j.o, "id", "number")
    /\ IsA(reply.j.o, "legacy", "null")
    /\ err = ErrNoSuchProfile

\* An answer to LoadWithProperties with a well-formed document whose only
\* property is a "textures" property.
OneAttachment ==
    /\ Answered /\ op = "LoadWithProperties"
    /\ EntryBuilds(reply.j)
    /\ IsA(reply.j.o, "properties", "array")
    /\ Len(reply.j.o["properties"].a) = 1
    /\ reply.j.o["properties"].a[1] \in TextureProperties
TheAttachment == reply.j.o["properties"].a[1].o["value"].enc

\* The attachments of the expected shape: a "textures" object; a "SKIN", if
\* any, with a string "url" and, if any, a "metadata" object whose "model",
\* if any, is a string; without a "SKIN", a "profileId" of at least 32 bytes
\* with hexadecimal digits where defaultModel reads; a "CAPE", if any, with
\* a string "url".
ExpectedShape(j) ==
    /\ IsA(j, "textures", "object")
    /\ LET ts == j["textures"].o
       IN  /\ Has(ts, "SKIN") =>
                /\ ts["SKIN"].t = "object"
                /\ IsA(ts["SKIN"].o, "url", "string")
                /\ Has(ts["SKIN"].o, "metadata") =>
                    /\ ts["SKIN"].o["metadata"].t = "object"
                    /\ Has(ts["SKIN"].o["metadata"].o, "model")
                            => IsA(ts["SKIN"].o["metadata"].o, "model", "string")
           /\ ~Has(ts, "SKIN") =>
                /\ IsA(j, "profileId", "string")
                /\ Len(j["profileId"].bytes) >= 32
                /\ \A k \in {8, 16, 24, 32} :
                        j["profileId"].bytes[k] \in (48..57) \cup (97..102)
           /\ Has(ts, "CAPE") =>
                /\ ts["CAPE"].t = "object"
                /\ IsA(ts["CAPE"].o, "url", "string")

\* An attachment without a skin, whose profileId reaches defaultModel.
ReachesDefaultModel ==
    /\ OneAttachment
    /\ TheAttachment.err = NoError
    /\ IsA(TheAttachment.j, "textures", "object")
    /\ ~Has(TheAttachment.j["textures"].o, "SKIN")
    /\ IsA(TheAttachment.j, "profileId", "string")
TheProfileId == TheAttachment.j["profileId"].bytes

\* C5: every load operation is all-or-nothing.  No panic escapes; with a
\* non-nil error the profile and the slice returned are nil; a document, a
\* property list or an attachment of unexpected shape (an identifier with an
\* invalid digit or too short for defaultModel included) yields a Parse
\* error and no profile, and an answer yields no other error but
\* ErrNoSuchProfile.
C5_AllOrNothing ==
    pc = "done" =>
        /\ ~escaped
        /\ err # NoError => p = NilProfile /\ ps = NilSlice
        /\ reply.kind = "json" /\ err \notin {NoError, ErrNoSuchProfile} => IsParseError(err)
        /\ Answered /\ op \in DocumentOps /\ ~IsDemoDoc(reply.j) /\ ~EntryBuilds(reply.j)
                => IsParseError(err)
        /\ Answered /\ op = "LoadWithProperties" /\ EntryBuilds(reply.j)
                /\ ~IsA(reply.j.o, "properties", "array")
                => IsParseError(err)
        /\ OneAttachment =>
                IF TheAttachment.err = NoError /\ ExpectedShape(TheAttachment.j)
                THEN err = NoError /\ ~p.nil /\ ~p.Properties.nil
                ELSE IsParseError(err)

C5_Witness ==
    /\ ReachesDefaultModel
    /\ Len(TheProfileId) = 32
    /\ TheProfileId[8] = 103
    /\ IsParseError(err)
    /\ p = NilProfile

C5_ShortWitness ==
    ReachesDefaultModel /\ Len(TheProfileId) = 31 /\ IsParseError(err) /\ p = NilProfile

\* C6, as claimed: transformError reports status 204 as ErrNoSuchProfile and
\* the error code "TooManyRequestsException" as ErrTooManyRequests whatever
\* the status code; every other failure is returned unchanged.
C6_CodeWhateverStatus ==
    pc = "done" /\ reply.kind = "failure" =>
        LET f == reply.err
            failed == f.e = "internal.ErrFailedRequest"
        IN  /\ failed /\ f.StatusCode = 204 => err = ErrNoSuchProfile
            /\ failed /\ f.ErrorCode = "TooManyRequestsException" => err = ErrTooManyRequests
            /\ ~(failed /\ (f.StatusCode = 204 \/ f.ErrorCode = "TooManyRequestsException"))
                    => err = f

\* C6, amended: status 204 is reported as ErrNoSuchProfile whatever the error
\* code; the error code "TooManyRequestsException" is reported as
\* ErrTooManyRequests for every status code but 204; every other failure is
\* returned unchanged.
C6_StatusBeforeCode ==
    pc = "done" /\ reply.kind = "failure" =>
        LET f == reply.err
            failed == f.e = "internal.ErrFailedRequest"
        IN  /\ failed /\ f.StatusCode = 204 => err = ErrNoSuchProfile
            /\ failed /\ f.StatusCode # 204 /\ f.ErrorCode = "TooManyRequestsException"
                    => err = ErrTooManyRequests
            /\ ~(failed /\ (f.StatusCode = 204 \/ f.ErrorCode = "TooManyRequestsException"))
                    => err = f

C6_Witness ==
    /\ pc = "done" /\ reply.kind = "failure"
    /\ reply.err.e = "internal.ErrFailedRequest"
    /\ reply.err.StatusCode = 204
    /\ reply.err.ErrorCode = "TooManyRequestsException"
    /\ err = ErrNoSuchProfile

C6_RateWitness ==
    /\ pc = "done" /\ reply.kind = "failure"
    /\ reply.err.e = "internal.ErrFailedRequest"
    /\ reply.err.StatusCode = 500
    /\ reply.err.ErrorCode = "TooManyRequestsException"
    /\ err = ErrTooManyRequests

\* C7: LoadMany with more than LoadManyMaxSize names fails with
\* ErrMaxSizeExceeded carrying their number and sends no request; with only
\* empty names it sends no request and returns an empty result and no error;
\* otherwise it sends one request, with the names that are not empty.
C7_BatchRequest ==
    pc = "done" /\ op = "LoadMany" =>
        IF Len(arg) > 100
        THEN sent = <<>> /\ err = ErrMaxSizeExceeded(Len(arg)) /\ ps = NilSlice
        ELSE IF \A k \in 1..Len(arg) : arg[k] = ""
        THEN sent = <<>> /\ err = NoError /\ ps.elems = <<>>
        ELSE LET named == {k \in 1..Len(arg) : arg[k] # ""}
             IN  /\ Len(sent) = 1
                 /\ sent[1].method = "POST"
                 /\ Len(sent[1].payload) = Cardinality(named)
                 /\ \A k \in named :
                        sent[1].payload[Cardinality({m \in named : m <= k})] = arg[k]

C7_Witness ==
    /\ pc = "done" /\ op = "LoadMany"
    /\ Len(arg) = 101
    /\ sent = <<>>
    /\ err = ErrMaxSizeExceeded(101)

C7_FullWitness ==
    /\ pc = "done" /\ op = "LoadMany"
    /\ Len(arg) = 100
    /\ arg[1] = "" /\ arg[2] = "a"
    /\ Len(sent) = 1 /\ Len(sent[1].payload) = 99
    /\ err = NoError

C7_EmptyWitness ==
    /\ pc = "done" /\ op = "LoadMany"
    /\ Len(arg) = 2 /\ arg[1] = "" /\ arg[2] = ""
    /\ sent = <<>> /\ err = NoError /\ ps.elems = <<>>

\* C8: in LoadMany every entry of the response array that is a demo account
\* is omitted from the result without failing the call, wherever it stands,
\* and every other entry appears in the result, in its order; if an entry
\* fails for another reason the call fails with a nil result.
C8_BatchEntries ==
    BatchAnswered =>
        LET a == reply.j.a
            kept == SelectSeq(a, LAMBDA e : ~IsDemoDoc(e))
        IN  IF \A k \in 1..Len(a) : IsDemoDoc(a[k]) \/ EntryBuilds(a[k])
            THEN /\ err = NoError
                 /\ ~ps.nil
                 /\ Len(ps.elems) = Len(kept)
                 /\ \A i \in 1..Len(kept) :
                        /\ ps.elems[i].ID = kept[i].o["id"].s
                        /\ ps.elems[i].Name = kept[i].o["name"].s
            ELSE err # NoError /\ ps = NilSlice

C8_Witness ==
    /\ BatchAnswered
    /\ Len(reply.j.a) = 2
    /\ EntryBuilds(reply.j.a[1])
    /\ IsDemoDoc(reply.j.a[2])
    /\ err = NoError
    /\ Len(ps.elems) = 1

\* C9, as claimed: LoadMany returns no two profiles for the same username.
C9_NoDuplicates ==
    pc = "done" /\ op = "LoadMany" /\ err = NoError =>
        \A i, k \in 1..Len(ps.elems) : i # k => ps.elems[i].Name # ps.elems[k].Name

\* An answer to LoadWithProperties that populateTextures was applied to once:
\* the call succeeded and one property of the answer is named "textures".
TexturesPopulated ==
    /\ Answered /\ op = "LoadWithProperties" /\ err = NoError
    /\ Cardinality({i \in 1..Len(reply.j.o["properties"].a) :
                        reply.j.o["properties"].a[i].o["name"].s = "textures"}) = 1
TheTextures ==
    LET a == reply.j.o["properties"].a
        i == CHOOSE i \in 1..Len(a) : a[i].o["name"].s = "textures"
    IN  a[i].o["value"].enc.j

\* C10: with a "SKIN" entry the model is Alex exactly when its
\* metadata.model is "slim", and Steve otherwise; without one the skin URL
\* stays absent and the model is defaultModel(profileId); the cape URL is
\* set exactly when a "CAPE" entry is present.
C10_TexturesModel ==
    TexturesPopulated =>
        LET j == TheTextures
            ts == j["textures"].o
            props == p.Properties
        IN  /\ Has(ts, "SKIN") =>
                LET skin == ts["SKIN"].o
                    slim == /\ Has(skin, "metadata")
                            /\ Has(skin["metadata"].o, "model")
                            /\ skin["metadata"].o["model"].s = "slim"
                IN  /\ props.SkinURL = skin["url"].s
                    /\ props.Model = IF slim THEN Alex ELSE Steve
            /\ ~Has(ts, "SKIN") =>
                /\ props.SkinURL = ""
                /\ IsA(j, "profileId", "string")
                /\ ~defaultModel(j["profileId"].bytes).panic
                /\ props.Model = defaultModel(j["profileId"].bytes).model
            /\ Has(ts, "CAPE") => props.CapeURL = ts["CAPE"].o["url"].s
            /\ ~Has(ts, "CAPE") => props.CapeURL = ""

C10_Witness ==
    /\ TexturesPopulated
    /\ ~Has(TheTextures["textures"].o, "SKIN")
    /\ Has(TheTextures["textures"].o, "CAPE")
    /\ p.Properties.Model = Alex
    /\ p.Properties.SkinURL = ""
    /\ p.Properties.CapeURL # ""

C10_SlimWitness ==
    /\ TexturesPopulated
    /\ Has(TheTextures["textures"].o, "SKIN")
    /\ p.Properties.Model = Alex

(***************************************************************************)
(* Properties of the default model.                                        *)
(***************************************************************************)
\* The bytes '0'..'9' and 'a'..'f', and the numeric value of such a digit.
IsHexDigit(c) == c \in (48..57) \cup (97..102)
HexValue(c) == IF c <= 57 THEN c - 48 ELSE c - 97 + 10

\* An attachment without a skin whose profileId has 32 bytes: Go's uuid[i]
\* is TheProfileId[i + 1].
DefaultModelCase == ReachesDefaultModel /\ Len(TheProfileId) = 32
InspectedAreHex == \A i \in {7, 15, 23, 31} : IsHexDigit(TheProfileId[i + 1])

\* The classification the claim states: a decimal digit of even value, or a
\* letter digit of odd value.
ClaimedEven(c) ==
    \/ c \in 48..57 /\ HexValue(c) % 2 = 0
    \/ c \in 97..102 /\ HexValue(c) % 2 = 1
\* The classification by the numeric value alone.
ValueEven(c) == HexValue(c) % 2 = 0

\* C11, as claimed: defaultModel classifies a digit as even iff it is a
\* decimal digit of even value or a letter digit a-f of odd value, computes
\* X = even(id[7]) # even(id[23]) and Y = even(id[15]) # even(id[31]) and
\* returns Alex iff X # Y; a byte outside 0-9a-f at an inspected position is
\* a fatal format violation.
C11_LettersOddAreEven ==
    DefaultModelCase =>
        IF InspectedAreHex
        THEN LET id == TheProfileId
                 X == ClaimedEven(id[7 + 1]) # ClaimedEven(id[23 + 1])
                 Y == ClaimedEven(id[15 + 1]) # ClaimedEven(id[31 + 1])
             IN  /\ err = NoError
                 /\ p.Properties.Model = IF X # Y THEN Alex ELSE Steve
        ELSE IsParseError(err) /\ p = NilProfile

\* C11, amended: defaultModel classifies a digit, decimal or letter, as even
\* iff its numeric value (0-15) is even, computes X and Y as claimed and
\* returns Alex iff X # Y; a byte outside 0-9a-f at an inspected position is
\* a fatal format violation.
C11_ValueParity ==
    DefaultModelCase =>
        IF InspectedAreHex
        THEN LET id == TheProfileId
                 X == ValueEven(id[7 + 1]) # ValueEven(id[23 + 1])
                 Y == ValueEven(id[15 + 1]) # ValueEven(id[31 + 1])
             IN  /\ err = NoError
                 /\ p.Properties.Model = IF X # Y THEN Alex ELSE Steve
        ELSE IsParseError(err) /\ p = NilProfile

\* One letter digit among the four: 'a' (value 10) at position 7.
C11_Witness ==
    /\ DefaultModelCase
    /\ TheProfileId[7 + 1] = 97
    /\ TheProfileId[15 + 1] = 49
    /\ TheProfileId[23 + 1] = 48
    /\ TheProfileId[31 + 1] = 48
    /\ p.Properties.Model = Alex

C11_InvalidWitness ==
    DefaultModelCase /\ TheProfileId[31 + 1] = 65 /\ IsParseError(err)

(***************************************************************************)
(* Properties of the Properties value.                                     *)
(***************************************************************************)
PropertiesLoaded == Answered /\ op = "LoadWithProperties" /\ err = NoError

\* C12, as claimed: every Properties value a successful LoadWithProperties
\* returns has its model resolved, by the "SKIN" handling or by defaultModel,
\* and never left at its initial value, whatever the property list.
C12_ModelResolved ==
    PropertiesLoaded =>
        /\ p.Properties # NilProperties
        /\ p.Properties.Model \in {Steve, Alex}

(***************************************************************************)
(* Properties of malformed events.                                         *)
(***************************************************************************)
NameHistoryOps == {"LoadByID", "LoadWithNameHistory"}
EventsAnswered == Answered /\ op \in NameHistoryOps /\ reply.j.t = "array"

LacksName(e) == e.t # "object" \/ ~IsA(e.o, "name", "string")
BadInstant(e) ==
    e.t = "object" /\ Has(e.o, "changedToAt") /\ e.o["changedToAt"].t # "number"

\* C13, as claimed: LoadWithNameHistory fails with a Parse error and returns
\* a nil profile whenever any event lacks a string "name" or any event
\* carries a "changedToAt" that is not a number.
C13_AnyEventMalformed ==
    EventsAnswered
        /\ (\E i \in 1..Len(reply.j.a) : LacksName(reply.j.a[i]) \/ BadInstant(reply.j.a[i]))
    => IsParseError(err) /\ p = NilProfile

\* C13, amended: LoadWithNameHistory fails with a Parse error and returns a
\* nil profile exactly when some event lacks a string "name" or some event
\* after the first carries a "changedToAt" that is not a number; the
\* "changedToAt" of the first event is ignored whatever its type.
C13_LaterEventMalformed ==
    EventsAnswered =>
        IF \E i \in 1..Len(reply.j.a) :
                LacksName(reply.j.a[i]) \/ (i > 1 /\ BadInstant(reply.j.a[i]))
        THEN IsParseError(err) /\ p = NilProfile
        ELSE err = NoError /\ p # NilProfile

\* A second event whose "changedToAt" is a string, all names being strings.
C13_Witness ==
    /\ EventsAnswered
    /\ Len(reply.j.a) = 2
    /\ \A i \in 1..2 : ~LacksName(reply.j.a[i])
    /\ ~BadInstant(reply.j.a[1])
    /\ BadInstant(reply.j.a[2])
    /\ IsParseError(err)
    /\ p = NilProfile

\* A first event whose "changedToAt" is a string: the call succeeds.
C13_FirstEventWitness ==
    /\ EventsAnswered
    /\ Len(reply.j.a) = 2
    /\ BadInstant(reply.j.a[1])
    /\ err = NoError
    /\ p.Name = reply.j.a[2].o["name"].s

(***************************************************************************)
(* Properties of every Profile returned.                                   *)
(***************************************************************************)
NamedProfile(q) == q # NilProfile /\ q.ID # "" /\ q.Name # ""

\* C14, as claimed: every Profile a load operation returns with a nil error
\* has a non-empty ID and a non-empty Name, whatever the answer was.
C14_NonEmptyIdAndName ==
    pc = "done" /\ err = NoError =>
        IF op = "LoadMany"
        THEN \A i \in 1..Len(ps.elems) : NamedProfile(ps.elems[i])
        ELSE NamedProfile(p)

(***************************************************************************)
(* The default model as the parity of a hash code.                         *)
(***************************************************************************)
\* The least-significant bit of the value of a hexadecimal digit.
LowBit(c) == HexValue(c) % 2
Xor(a, b) == (a + b) % 2

\* C15: for an identifier of 32 hexadecimal digits defaultModel returns Alex
\* exactly when the XOR of the least-significant bits of the digit values at
\* positions 7, 15, 23 and 31 is 1, and Steve otherwise, as Java's
\* uuid.hashCode() & 1 does; no other character enters the result.
C15_HashCodeParity ==
    DefaultModelCase /\ InspectedAreHex =>
        LET id == TheProfileId
            bit == Xor(Xor(LowBit(id[7 + 1]), LowBit(id[15 + 1])),
                       Xor(LowBit(id[23 + 1]), LowBit(id[31 + 1])))
        IN  /\ err = NoError
            /\ p.Properties.Model = IF bit = 1 THEN Alex ELSE Steve

\* Two letters of odd value among the inspected digits and a first digit of
\* odd value outside them: the bits cancel and the model is Steve.
C15_Witness ==
    /\ DefaultModelCase
    /\ TheProfileId[0 + 1] = 102
    /\ TheProfileId[7 + 1] = 102
    /\ TheProfileId[15 + 1] = 98
    /\ TheProfileId[23 + 1] = 48
    /\ TheProfileId[31 + 1] = 48
    /\ p.Properties.Model = Steve

C15_AlexWitness ==
    /\ DefaultModelCase
    /\ TheProfileId[0 + 1] = 48
    /\ TheProfileId[7 + 1] = 57
    /\ TheProfileId[15 + 1] = 97
    /\ TheProfileId[23 + 1] = 48
    /\ TheProfileId[31 + 1] = 48
    /\ p.Properties.Model = Alex

====
